---- MODULE Spec2Model ----
(***************************************************************************)
(* A model of github.com/rhysh/autoprof: the Collector that assembles a    *)
(* profile bundle (collector.go), its static data sources (writer.go) and  *)
(* the time-bounded captures it runs through an io.Pipe and a pump         *)
(* goroutine.                                                              *)
(*                                                                         *)
(* Errors are strings; Nil is Go's nil error.  An archive entry name is    *)
(* the string handed to writeFileHeader.  log is the history of the calls  *)
(* Run makes on its collaborators (writeFileHeader, the entry writers,     *)
(* the capture mechanisms, finish) in the order they happen.               *)
(***************************************************************************)
EXTENDS Integers, Sequences, FiniteSets, TLC

\* ---------------------------------------------------------------- bounds
\* number of custom data source names the options may hold
MaxCustom == 2
\* largest soft byte target an option may carry
MaxTarget == 2
\* most bytes one capture mechanism emits into its pipe
MaxBytes == 3
\* number of key/value pairs expvar.Do enumerates
NumExpvar == 1

\* ------------------------------------------------------------ vocabulary
Nil == "nil"

\* pprof.Profiles(): every registered profile, sorted by name.
Profiles == <<"allocs", "heap", "mutex">>

\* names a caller may use as keys of ArchiveOptions.CustomDataSources,
\* listed in the order sort.Strings gives them
CustomUniverse == <<"a/b", "b", "c", "d">>

CustomNames == {CustomUniverse[i] : i \in 1..MaxCustom}

profileName == "pprof/profile"
traceName == "pprof/trace"
profileDuringTraceName == "pprof/profile-during-trace"

\* url.PathEscape on the names the model uses: "/" becomes "%2F"
PathEscape(s) == IF s = "a/b" THEN "a%2Fb" ELSE s

\* position of a name in the byte-wise order of strings
Rank(s) == CHOOSE i \in 1..Len(CustomUniverse) : CustomUniverse[i] = s

RECURSIVE SortStrings(_)
\* sort.Strings over the keys collected from the map (a set: Go's map
\* iteration order is unspecified, the sort makes the result unique)
SortStrings(S) ==
    IF S = {} THEN <<>>
    ELSE LET m == CHOOSE x \in S : \A y \in S : Rank(x) <= Rank(y)
         IN  <<m>> \o SortStrings(S \ {m})

RECURSIVE UnsortedStrings(_)
\* the keys in an order the map iteration may produce (descending here)
UnsortedStrings(S) ==
    IF S = {} THEN <<>>
    ELSE LET m == CHOOSE x \in S : \A y \in S : Rank(x) >= Rank(y)
         IN  <<m>> \o UnsortedStrings(S \ {m})

\* an event of the history: what was called, on what, whether it succeeded
\* and, for a write, the bytes it carried
Ev(e, n, o) == [ev |-> e, name |-> n, ok |-> o, data |-> <<>>]

EvWrite(n, o, d) == [ev |-> "write", name |-> n, ok |-> o, data |-> d]

VARIABLES
    opt,          \* *ArchiveOptions of the Collector
    pc,           \* position of the goroutine running Collector.Run
    step,         \* index of the next add call of Run
    addErr,       \* Collector.addErr
    ret,          \* the error Run returned, once pc = "done"
    log,          \* history of calls
    cpuHolder,    \* who runs the process-wide CPU profile: none, other, self
    traceHolder,  \* who runs the process-wide execution trace
    cpuStays,     \* another party has run the CPU profile since Run began
    traceStays,   \* another party has run the execution trace since Run began
    cur,          \* the capture addTimeBasedProfile is running: none, cpu, trace
    cpuProfile,   \* addExecutionTrace's cpuProfile != nil
    cpuBuf,       \* contents of the bytes.Buffer behind cpuProfile
    traceErr,     \* addExecutionTrace's traceErr
    ctxDone,      \* the capture's context is done (deadline or cancel)
    parentDone,   \* the context passed to Run is done
    pipe,         \* bytes of the producer's pending pw.Write
    pwClosed,     \* pw.Close() has been called
    prod,         \* the capture mechanism writing into pw
    pump,         \* the goroutine running io.Copy(w, pr)
    copyErr,      \* addTimeBasedProfile's copyErr
    lw,           \* the limitTriggerWriter, when installed
    entry,        \* the bytes written to the capture's archive entry
    sched,        \* position of the goroutine running periodic.Collector.Run
    iter,         \* the loop counter i of periodic.Collector.Run
    nextExecTrace, \* runner.nextExecTrace
    timer,        \* duration of the timer runner.delay waits for
    schedRet,     \* the error periodic.Collector.Run returned
    slog,         \* history of the scheduler's calls
    llb,          \* a linkedListBuffer
    wrote,        \* the bytes written to llb, in order
    got,          \* the bytes read from llb, in order
    bpc,          \* what the user of llb does: write, read, eof
    call          \* the last call on llb and what it returned

vars == <<opt, pc, step, addErr, ret, log, cpuHolder, traceHolder,
          cpuStays, traceStays, cur, cpuProfile, cpuBuf, traceErr, ctxDone,
          parentDone, pipe, pwClosed, prod, pump, copyErr, lw, entry,
          sched, iter, nextExecTrace, timer, schedRet, slog,
          llb, wrote, got, bpc, call>>

captureVars == <<cur, cpuProfile, cpuBuf, traceErr, ctxDone, pipe, pwClosed,
                 prod, pump, copyErr, lw, entry>>

envVars == <<cpuHolder, traceHolder, cpuStays, traceStays, parentDone>>

periodicVars == <<sched, iter, nextExecTrace, timer, schedRet, slog>>

bufVars == <<llb, wrote, got, bpc, call>>

\* what Collector.Run of package autoprof does not touch
outerVars == <<periodicVars, bufVars>>

\* ------------------------------------------------------ static sources
\* writer.go: what one WriteTo call does to the entry writer w and what it
\* returns.  wrote = number of writes w accepted, rejected = w then refused
\* one, err = the error WriteTo returns.
Outcome(e, n, r) == [err |-> e, wrote |-> n, rejected |-> r]

\* errSource(err).WriteTo: no write, returns err
errSource(e) == {Outcome(e, 0, FALSE)}

\* metaSource(meta).WriteTo: one w.Write(buf), whose error is returned
\* (json.Marshal of an ArchiveMeta, a struct of strings, does not fail)
metaSource ==
    {Outcome(Nil, 1, FALSE), Outcome("err:write:meta", 0, TRUE)}

\* number of printf calls of the expvar source: "{", one per pair, "}"
ExpvarWrites == NumExpvar + 2

\* expvarStyleSource(do).WriteTo: printf latches the first write error and
\* makes no further write; the function then returns nil (writer.go:54)
expvarStyleSource ==
    {Outcome(Nil, ExpvarWrites, FALSE)} \cup
    {Outcome(Nil, k - 1, TRUE) : k \in 1..ExpvarWrites}

\* pprofSource(profile).WriteTo: profile.WriteTo(w, 0) returns w's error
pprofSource(name) ==
    {Outcome(Nil, 1, FALSE), Outcome("err:write:" \o name, 0, TRUE)}

\* a caller's DataSource: writes and succeeds, is refused by w and says so,
\* or fails on its own
customSource(name) ==
    {Outcome(Nil, 1, FALSE), Outcome("err:write:" \o name, 0, TRUE)}
    \cup errSource("err:source:" \o name)

\* the outcomes of source.WriteTo for one add call
WriteTo(a) ==
    CASE a.kind = "meta"   -> metaSource
      [] a.kind = "expvar" -> expvarStyleSource
      [] a.kind = "pprof"  -> pprofSource(a.name)
      [] OTHER             -> customSource(a.name)

AddCall(n, k, s) == [name |-> n, kind |-> k, src |-> s]

\* collector.go:106-110: every profile of pprof.Profiles() but heap
OtherProfiles ==
    LET keep == SelectSeq(Profiles, LAMBDA n : n # "heap")
    IN  [i \in 1..Len(keep) |->
            AddCall("pprof/" \o PathEscape(keep[i]), "pprof", "source")]

\* the custom sources added in map iteration order, without the sort
CustomAddsUnsorted(o) ==
    LET custom == UnsortedStrings(o.custom)
    IN  [i \in 1..Len(custom) |->
            AddCall("custom/" \o PathEscape(custom[i]), "custom", "any")]

\* collector.go:112-119: the custom sources, by sorted name.  Whether the
\* DataSource under a name has a WriteTo is seen by add alone ("any")
CustomAdds(o) ==
    LET custom == SortStrings(o.custom)
    IN  [i \in 1..Len(custom) |->
            AddCall("custom/" \o PathEscape(custom[i]), "custom", "any")]

\* collector.go:100-119: the add calls of Run, in order
RunAdds(o) ==
    <<AddCall("meta", "meta", "source"), AddCall("expvar", "expvar", "source"),
      AddCall("pprof/heap", "pprof", "source")>>
    \o OtherProfiles \o CustomAdds(o)

\* the events of one WriteTo outcome on entry n: the writes of the source
\* as one event, which says whether w accepted them all, then the return
\* of WriteTo with the error it returned
WriteEvents(n, r) ==
    (IF r.wrote > 0 \/ r.rejected THEN <<EvWrite(n, ~r.rejected, <<>>)>> ELSE <<>>)
    \o <<[ev |-> "writeTo", name |-> n, ok |-> r.err = Nil, data |-> <<r.err>>]>>

\* --------------------------------------------------------------- inputs
\* the ArchiveOptions a caller may pass: a duration is 0 (disabled) or
\* positive, custom is the key set of CustomDataSources.  The two byte
\* targets are each read once, as the targetSize argument of the capture's
\* addTimeBasedProfile call, and are drawn where that call uses it
Options == [cpuDur : {0, 1}, traceDur : {0, 1}, custom : SUBSET CustomNames]

\* CPUProfileByteTarget, ExecutionTraceByteTarget (int64): negative, 0
\* (unset) or a number of bytes
TargetSizes == (-1)..MaxTarget

\* no limitTriggerWriter: w is the entry's writer itself.  target notes the
\* byte target a writer was built with, calls the number of calls of fn
NoLimit == [on |-> FALSE, remaining |-> 0, fn |-> FALSE, calls |-> 0,
            target |-> 0]

\* a wrapper installed whatever the target
WrapAlways(targetSize) ==
    [on |-> TRUE, remaining |-> targetSize, fn |-> TRUE, calls |-> 0,
     target |-> targetSize]

\* collector.go:230-236: w is wrapped in a limitTriggerWriter only when the
\* byte target is positive
Wrap(targetSize) ==
    IF targetSize > 0
    THEN [on |-> TRUE, remaining |-> targetSize, fn |-> TRUE, calls |-> 0,
          target |-> targetSize]
    ELSE NoLimit

IdleProducer == [state |-> "idle", sent |-> 0]

NoPump == [state |-> "none", buf |-> <<>>]

\* &linkedListBuffer{Size: size}: no link yet (pointers are positions in
\* links, 0 is nil)
ZeroBuffer(size) == [Size |-> size, head |-> 0, tail |-> 0, links |-> <<>>]

\* no periodic.Collector is running
PeriodicOff ==
    /\ sched = "off"
    /\ iter = 0
    /\ nextExecTrace = 0
    /\ timer = 0
    /\ schedRet = Nil
    /\ slog = <<>>

\* a call on the buffer: the method, the length of the slice passed, the
\* count and the error returned
BufCall(m, l, n, e) == [op |-> m, len |-> l, n |-> n, err |-> e]

NoBufCall == BufCall("none", 0, 0, Nil)

\* no linkedListBuffer is exercised on its own
BufOff ==
    /\ llb = ZeroBuffer(0)
    /\ wrote = <<>>
    /\ got = <<>>
    /\ bpc = "off"
    /\ call = NoBufCall

\* NewZipCollector: a fresh Collector; the process may already run a CPU
\* profile or an execution trace for somebody else
Init ==
    /\ PeriodicOff
    /\ BufOff
    /\ opt \in Options
    /\ pc = "add"
    /\ step = 1
    /\ addErr = Nil
    /\ ret = Nil
    /\ log = <<>>
    /\ cpuHolder \in {"none", "other"}
    /\ traceHolder \in {"none", "other"}
    /\ cpuStays = (cpuHolder = "other")
    /\ traceStays = (traceHolder = "other")
    /\ cur = "none"
    /\ cpuProfile = FALSE
    /\ cpuBuf = <<>>
    /\ traceErr = Nil
    /\ ctxDone = FALSE
    /\ parentDone = FALSE
    /\ pipe = <<>>
    /\ pwClosed = FALSE
    /\ prod = IdleProducer
    /\ pump = NoPump
    /\ copyErr = Nil
    /\ lw = NoLimit
    /\ entry = <<>>

\* ------------------------------------------------------------- Run, add
\* a capture that runs whatever its duration
RequestedAlways(d) == TRUE

\* collector.go:125, 132, 157: a capture is requested by a positive duration
Requested(d) == d > 0

\* Run returns e, after the calls l
Return(e, l) ==
    /\ pc' = "done"
    /\ ret' = e
    /\ log' = Append(l, Ev("return", e, e = Nil))

\* add that returns early only for a source without WriteTo
AddSkipsNilOnly(isNil, err) == isNil

\* collector.go:81-86: add returns early for a source without WriteTo and
\* after an earlier error
AddSkips(isNil, err) == isNil \/ err # Nil

\* Collector.add for the next add call of Run: skip a source without
\* WriteTo, skip after an earlier error, else open the entry and, if that
\* worked, let the source write
Add ==
    /\ pc = "add"
    /\ step <= Len(RunAdds(opt))
    /\ LET a == RunAdds(opt)[step]
       IN  \E isNil \in {FALSE, a.src = "any"}, hdrOK \in BOOLEAN :
              IF AddSkips(isNil, addErr)
              THEN UNCHANGED <<addErr, log>>
              ELSE
                  IF ~hdrOK
                  THEN /\ addErr' = "err:header:" \o a.name
                       /\ log' = Append(log, Ev("hdr", a.name, FALSE))
                  ELSE \E r \in WriteTo(a) :
                         /\ addErr' = r.err
                         /\ log' = Append(log, Ev("hdr", a.name, TRUE))
                                      \o WriteEvents(a.name, r)
    /\ step' = step + 1
    /\ pc' = IF step = Len(RunAdds(opt)) THEN "addErr" ELSE "add"
    /\ UNCHANGED <<opt, ret>>
    /\ UNCHANGED captureVars
    /\ UNCHANGED envVars
    /\ UNCHANGED outerVars

\* collector.go:121-123
CheckAddErr ==
    /\ pc = "addErr"
    /\ IF addErr # Nil THEN Return(addErr, log)
       ELSE pc' = "cpu" /\ UNCHANGED <<ret, log>>
    /\ UNCHANGED <<opt, step, addErr>>
    /\ UNCHANGED captureVars
    /\ UNCHANGED envVars
    /\ UNCHANGED outerVars

\* collector.go:125-126 and addCPUProfile: a context with the deadline,
\* then addTimeBasedProfile with pprof.StartCPUProfile/StopCPUProfile
CallAddCPUProfile ==
    /\ pc = "cpu"
    /\ IF Requested(opt.cpuDur)
       THEN pc' = "start" /\ cur' = "cpu"
       ELSE pc' = "trace" /\ cur' = cur
    /\ UNCHANGED <<opt, step, addErr, ret, log, cpuProfile, cpuBuf,
                   traceErr, ctxDone, pipe, pwClosed, prod, pump, copyErr, lw,
                   entry>>
    /\ UNCHANGED envVars
    /\ UNCHANGED outerVars

\* collector.go:132-133 and addExecutionTrace up to its call of
\* addTimeBasedProfile
CallAddExecutionTrace ==
    /\ pc = "trace"
    /\ IF Requested(opt.traceDur)
       THEN pc' = "start" /\ cur' = "trace"
       ELSE pc' = "finish" /\ cur' = cur
    /\ UNCHANGED <<opt, step, addErr, ret, log, cpuProfile, cpuBuf,
                   traceErr, ctxDone, pipe, pwClosed, prod, pump, copyErr, lw,
                   entry>>
    /\ UNCHANGED envVars
    /\ UNCHANGED outerVars

\* a Run that drops the error of finish
FinishResultDropped(ok) == Nil

\* collector.go:139: Run returns what finish returns
FinishResult(ok) == IF ok THEN Nil ELSE "err:finish"

\* collector.go:139: finish is called, and Run returns
Finish ==
    /\ pc = "finish"
    /\ \E ok \in BOOLEAN :
         Return(FinishResult(ok), Append(log, Ev("finish", "", ok)))
    /\ UNCHANGED <<opt, step, addErr>>
    /\ UNCHANGED captureVars
    /\ UNCHANGED envVars
    /\ UNCHANGED outerVars

\* ------------------------------------------------- addTimeBasedProfile
\* bytes one Read of io.Copy takes from the pipe at most
CopyBuf == 2

\* the capture mechanism the running capture streams into its pipe
Mech == IF cur = "cpu" THEN "cpu" ELSE "trace"

\* the entry the running capture writes
EntryName == IF cur = "cpu" THEN profileName ELSE traceName

\* addExecutionTrace substitutes start and stop (collector.go:157)
WrapsCPU == cur = "trace" /\ Requested(opt.cpuDur)

\* the locals of addTimeBasedProfile before the call and after its return
NoCall ==
    /\ ctxDone' = FALSE
    /\ pipe' = <<>>
    /\ pwClosed' = FALSE
    /\ prod' = IdleProducer
    /\ pump' = NoPump
    /\ copyErr' = Nil
    /\ lw' = NoLimit
    /\ entry' = <<>>

\* addTimeBasedProfile returns e after the calls l: addCPUProfile hands it
\* to Run (collector.go:127), addExecutionTrace keeps it as traceErr
TBReturn(e, l) ==
    /\ cur' = "none"
    /\ NoCall
    /\ IF cur = "cpu"
       THEN /\ traceErr' = traceErr
            /\ LET l2 == Append(l, Ev("returned", "addCPUProfile", e = Nil))
               IN  IF e # Nil THEN Return(e, l2)
                   ELSE pc' = "trace" /\ ret' = ret /\ log' = l2
       ELSE /\ traceErr' = e
            /\ pc' = "profileErr"
            /\ ret' = ret
            /\ log' = l

\* a start failure reported to the caller
StartFailedIsError == "err:start"

\* collector.go:215-221: what addTimeBasedProfile returns when start failed
StartFailed == Nil

\* the substituted stop stopping the CPU profile whoever started it
StopsCPUAlways == WrapsCPU

\* the substituted stop leaving the CPU profile alone
StopsCPUNever == FALSE

\* collector.go:180-182: the substituted stop calls pprof.StopCPUProfile
\* only when its own start got the CPU profile
StopsCPU == WrapsCPU /\ cpuProfile

\* collector.go:209-221: a fresh pipe, then start(pw).  The plain start is
\* pprof.StartCPUProfile or trace.Start; the substituted one first tries
\* pprof.StartCPUProfile into a buffer, keeps the buffer if that worked,
\* and returns what trace.Start returns.  A mechanism starts only when
\* nobody runs it.  A failed start makes the call return nil.
Start ==
    /\ pc = "start"
    /\ LET cpuTry  == cur = "cpu" \/ WrapsCPU
           cpuOK   == cpuTry /\ cpuHolder = "none"
           trTry   == cur = "trace"
           trOK    == trTry /\ traceHolder = "none"
           ok      == IF cur = "cpu" THEN cpuOK ELSE trOK
           evs     == (IF cpuTry THEN <<Ev("start", "cpu", cpuOK)>> ELSE <<>>)
                      \o (IF trTry THEN <<Ev("start", "trace", trOK)>> ELSE <<>>)
       IN  /\ cpuHolder' = IF cpuOK THEN "self" ELSE cpuHolder
           /\ traceHolder' = IF trOK THEN "self" ELSE traceHolder
           /\ cpuProfile' = IF WrapsCPU /\ cpuOK THEN TRUE ELSE cpuProfile
           /\ IF ok
              THEN /\ pc' = "header"
                   /\ prod' = [state |-> "running", sent |-> 0]
                   /\ log' = log \o evs
                   /\ UNCHANGED <<cur, ret, traceErr, ctxDone, pipe, pwClosed,
                                  pump, copyErr, lw, entry>>
              ELSE TBReturn(StartFailed, log \o evs)
    /\ UNCHANGED <<opt, step, addErr, cpuBuf>>
    /\ UNCHANGED <<cpuStays, traceStays, parentDone>>
    /\ UNCHANGED outerVars

\* collector.go:225-244: open the entry; on failure return the error (stop
\* is not called); else wrap the writer when the byte target targetSize of
\* this capture is set and launch the pump
Header ==
    /\ pc = "header"
    /\ \E hdrOK \in BOOLEAN, targetSize \in TargetSizes :
         IF ~hdrOK
         THEN TBReturn("err:header:" \o EntryName,
                       Append(log, Ev("hdr", EntryName, FALSE)))
         ELSE /\ pc' = "wait"
              /\ log' = Append(log, Ev("hdr", EntryName, TRUE))
              /\ lw' = Wrap(targetSize)
              /\ pump' = [state |-> "reading", buf |-> <<>>]
              /\ UNCHANGED <<cur, ret, traceErr, ctxDone, pipe, pwClosed,
                             prod, copyErr, entry>>
    /\ UNCHANGED <<opt, step, addErr, cpuProfile, cpuBuf>>
    /\ UNCHANGED envVars
    /\ UNCHANGED outerVars

\* the timer of context.WithTimeout fires
Deadline ==
    /\ pc = "wait"
    /\ ~ctxDone
    /\ ctxDone' = TRUE
    /\ UNCHANGED <<opt, pc, step, addErr, ret, log, cur, cpuProfile,
                   cpuBuf, traceErr, pipe, pwClosed, prod, pump, copyErr, lw,
                   entry>>
    /\ UNCHANGED envVars
    /\ UNCHANGED outerVars

\* collector.go:246: <-ctx.Done()
Wait ==
    /\ pc = "wait"
    /\ ctxDone \/ parentDone
    /\ pc' = "stop"
    /\ UNCHANGED <<opt, step, addErr, ret, log>>
    /\ UNCHANGED captureVars
    /\ UNCHANGED envVars
    /\ UNCHANGED outerVars

\* collector.go:247: stop() is called; pprof.StopCPUProfile and trace.Stop
\* return only after the mechanism has completed its writes
StopBegin ==
    /\ pc = "stop"
    /\ pc' = "stopping"
    /\ prod' = [prod EXCEPT !.state = "flushing"]
    /\ log' = Append(log, Ev("stop", Mech, TRUE))
    /\ UNCHANGED <<opt, step, addErr, ret, cur, cpuProfile, cpuBuf,
                   traceErr, ctxDone, pipe, pwClosed, pump, copyErr, lw, entry>>
    /\ UNCHANGED envVars
    /\ UNCHANGED outerVars

\* stop() returns: the mechanism is off.  The substituted stop then calls
\* pprof.StopCPUProfile if cpuProfile != nil, which writes the profile into
\* the buffer (collector.go:174-183)
StopEnd ==
    /\ pc = "stopping"
    /\ prod.state = "finished"
    /\ pc' = "close"
    /\ IF cur = "cpu"
       THEN /\ cpuHolder' = "none"
            /\ UNCHANGED <<traceHolder, cpuBuf, log>>
       ELSE /\ traceHolder' = "none"
            /\ IF StopsCPU
               THEN /\ cpuHolder' = "none"
                    /\ cpuBuf' = <<1>>
                    /\ log' = Append(log, Ev("stop", "cpu", TRUE))
               ELSE UNCHANGED <<cpuHolder, cpuBuf, log>>
    /\ UNCHANGED <<opt, step, addErr, ret, cur, cpuProfile, traceErr,
                   ctxDone, pipe, pwClosed, prod, pump, copyErr, lw, entry>>
    /\ UNCHANGED <<cpuStays, traceStays, parentDone>>
    /\ UNCHANGED outerVars

\* collector.go:249: pw.Close(), which returns nil
Close ==
    /\ pc = "close"
    /\ pc' = "join"
    /\ pwClosed' = TRUE
    /\ log' = Append(log, Ev("close", Mech, TRUE))
    /\ UNCHANGED <<opt, step, addErr, ret, cur, cpuProfile,
                   cpuBuf, traceErr, ctxDone, pipe, prod, pump, copyErr, lw,
                   entry>>
    /\ UNCHANGED envVars
    /\ UNCHANGED outerVars

\* a wait that does not wait for the pump
WaitSkipped(p) == TRUE

\* collector.go:250: wg.Wait() returns once the pump goroutine has ended
WaitDone(p) == p.state = "done"

\* collector.go:250-256: wg.Wait(), then copyErr, else closeErr (nil)
Join ==
    /\ pc = "join"
    /\ WaitDone(pump)
    /\ TBReturn(copyErr, log)
    /\ UNCHANGED <<opt, step, addErr, cpuProfile, cpuBuf>>
    /\ UNCHANGED envVars
    /\ UNCHANGED outerVars

\* the first n elements of a sequence
Take(q, n) == SubSeq(q, 1, n)

\* a read that discards what it did not take
DropAll(q, n) == <<>>

\* the elements after the first n
Drop(q, n) == SubSeq(q, n + 1, Len(q))

Min(a, b) == IF a < b THEN a ELSE b

\* the mechanism writes its next bytes into pw; io.Pipe makes the Write
\* wait until the read side has taken all of them
ProducerWrite ==
    /\ prod.state \in {"running", "flushing"}
    /\ pipe = <<>>
    /\ prod.sent < MaxBytes
    /\ \E k \in 1..(MaxBytes - prod.sent) :
         /\ pipe' = [i \in 1..k |-> prod.sent + i]
         /\ prod' = [prod EXCEPT !.sent = prod.sent + k]
    /\ UNCHANGED <<opt, pc, step, addErr, ret, log, cur, cpuProfile,
                   cpuBuf, traceErr, ctxDone, pwClosed, pump, copyErr, lw,
                   entry>>
    /\ UNCHANGED envVars
    /\ UNCHANGED outerVars

\* the mechanism, told to stop, has completed its last write
ProducerFinish ==
    /\ prod.state = "flushing"
    /\ pipe = <<>>
    /\ prod' = [prod EXCEPT !.state = "finished"]
    /\ UNCHANGED <<opt, pc, step, addErr, ret, log, cur, cpuProfile,
                   cpuBuf, traceErr, ctxDone, pipe, pwClosed, pump, copyErr,
                   lw, entry>>
    /\ UNCHANGED envVars
    /\ UNCHANGED outerVars

\* io.Copy's pr.Read: the pending bytes, at most a buffer of them, or EOF
\* once pw is closed, which ends the copy with a nil error
PumpRead ==
    /\ pump.state = "reading"
    /\ \/ /\ pipe # <<>>
          /\ LET n == Min(CopyBuf, Len(pipe))
             IN  /\ pump' = [state |-> "writing", buf |-> Take(pipe, n)]
                 /\ pipe' = Drop(pipe, n)
          /\ UNCHANGED copyErr
       \/ /\ pipe = <<>>
          /\ pwClosed
          /\ pump' = [state |-> "done", buf |-> <<>>]
          /\ copyErr' = Nil
          /\ UNCHANGED pipe
    /\ UNCHANGED <<opt, pc, step, addErr, ret, log, cur, cpuProfile,
                   cpuBuf, traceErr, ctxDone, pwClosed, prod, lw, entry>>
    /\ UNCHANGED envVars
    /\ UNCHANGED outerVars

\* a trigger that fires only when the budget is used up to the byte
FiresAtZero(l, n) == l.on /\ l.fn /\ l.remaining - n = 0

\* a trigger that fires on every Write at or past the target
FiresEachTime(l, n) == l.on /\ l.remaining - n <= 0

\* whether a Write through the limitTriggerWriter l that the wrapped writer
\* took n bytes of calls fn
Fires(l, n) == l.on /\ l.fn /\ l.remaining - n <= 0

\* limitTriggerWriter.Write after the wrapped writer took n bytes: count
\* them, and call fn (cancel) once when the budget is used up
limitTriggerWriter(l, n) ==
    [on |-> l.on, remaining |-> l.remaining - n,
     fn |-> l.fn /\ ~Fires(l, n),
     calls |-> IF Fires(l, n) THEN l.calls + 1 ELSE l.calls,
     target |-> l.target]

\* io.Copy's w.Write of the bytes read, through the limitTriggerWriter when
\* one is installed; a refused write ends the copy with the error.  The
\* accepted bytes go to entry, a refused write is noted in the history
PumpWrite ==
    /\ pump.state = "writing"
    /\ \E ok \in BOOLEAN :
         LET n == IF ok THEN Len(pump.buf) ELSE 0
         IN  /\ entry' = entry \o Take(pump.buf, n)
             /\ log' = IF ok THEN log
                       ELSE Append(log, EvWrite(EntryName, FALSE, pump.buf))
             /\ lw' = IF lw.on THEN limitTriggerWriter(lw, n) ELSE lw
             /\ ctxDone' = (ctxDone \/ Fires(lw, n))
             /\ IF ok
                THEN pump' = [state |-> "reading", buf |-> <<>>] /\ UNCHANGED copyErr
                ELSE /\ pump' = [state |-> "done", buf |-> <<>>]
                     /\ copyErr' = "err:write:" \o EntryName
    /\ UNCHANGED <<opt, pc, step, addErr, ret, cur, cpuProfile,
                   cpuBuf, traceErr, pipe, pwClosed, prod>>
    /\ UNCHANGED envVars
    /\ UNCHANGED outerVars

\* an addExecutionTrace that prefers the error of the profile entry
ProfileErrFirst(tErr, pErr) == IF pErr # Nil THEN pErr ELSE tErr

\* collector.go:200-203: traceErr when it is not nil, else profileErr
TraceErrFirst(tErr, pErr) == IF tErr # Nil THEN tErr ELSE pErr

\* addExecutionTrace returns: traceErr if there is one, else profileErr;
\* Run returns a non-nil error at once (collector.go:200-203, 134-136)
ExecutionTraceReturn(profileErr, l) ==
    LET e  == TraceErrFirst(traceErr, profileErr)
        l2 == Append(l, Ev("returned", "addExecutionTrace", e = Nil))
    IN  IF e # Nil THEN Return(e, l2)
        ELSE pc' = "finish" /\ ret' = ret /\ log' = l2

\* collector.go:188-198: when cpuProfile != nil, open the entry for the
\* profile taken during the trace and copy the buffer into it (one Write
\* of the whole buffer, none when it is empty)
ProfileErr ==
    /\ pc = "profileErr"
    /\ IF ~cpuProfile
       THEN ExecutionTraceReturn(Nil, log)
       ELSE \E hdrOK \in BOOLEAN, wOK \in BOOLEAN :
              LET n == profileDuringTraceName
              IN  IF ~hdrOK
                  THEN ExecutionTraceReturn("err:header:" \o n,
                                            Append(log, Ev("hdr", n, FALSE)))
                  ELSE IF cpuBuf = <<>>
                  THEN ExecutionTraceReturn(Nil, Append(log, Ev("hdr", n, TRUE)))
                  ELSE ExecutionTraceReturn(
                         IF wOK THEN Nil ELSE "err:write:" \o n,
                         log \o <<Ev("hdr", n, TRUE), EvWrite(n, wOK, cpuBuf)>>)
    /\ UNCHANGED <<opt, step, addErr>>
    /\ UNCHANGED captureVars
    /\ UNCHANGED envVars
    /\ UNCHANGED outerVars

\* ---------------------------------------------------------- environment
\* another party (an interactive /debug/pprof request) starts or stops its
\* own CPU profile or execution trace.  Run looks at the mechanisms only in
\* start, so the other party's moves are taken right before a capture
OtherStartCPU ==
    /\ pc \in {"cpu", "trace"}
    /\ cpuHolder = "none"
    /\ cpuHolder' = "other"
    /\ UNCHANGED <<opt, pc, step, addErr, ret, log, traceHolder,
                   cpuStays, traceStays, parentDone>>
    /\ UNCHANGED captureVars
    /\ UNCHANGED outerVars

OtherStopCPU ==
    /\ pc \in {"cpu", "trace"}
    /\ cpuHolder = "other"
    /\ cpuHolder' = "none"
    /\ cpuStays' = FALSE
    /\ UNCHANGED <<opt, pc, step, addErr, ret, log, traceHolder,
                   traceStays, parentDone>>
    /\ UNCHANGED captureVars
    /\ UNCHANGED outerVars

OtherStartTrace ==
    /\ pc \in {"cpu", "trace"}
    /\ traceHolder = "none"
    /\ traceHolder' = "other"
    /\ UNCHANGED <<opt, pc, step, addErr, ret, log, cpuHolder,
                   cpuStays, traceStays, parentDone>>
    /\ UNCHANGED captureVars
    /\ UNCHANGED outerVars

OtherStopTrace ==
    /\ pc \in {"cpu", "trace"}
    /\ traceHolder = "other"
    /\ traceHolder' = "none"
    /\ traceStays' = FALSE
    /\ UNCHANGED <<opt, pc, step, addErr, ret, log, cpuHolder,
                   cpuStays, parentDone>>
    /\ UNCHANGED captureVars
    /\ UNCHANGED outerVars

\* the caller cancels the context it passed to Run; Run looks at it only
\* while it waits for the capture's context (the static sources ignore it,
\* a custom source that honours it fails on its own)
ParentCancel ==
    /\ pc = "wait"
    /\ ~parentDone
    /\ parentDone' = TRUE
    /\ UNCHANGED <<opt, pc, step, addErr, ret, log, cpuHolder,
                   traceHolder, cpuStays, traceStays>>
    /\ UNCHANGED captureVars
    /\ UNCHANGED outerVars

\* ------------------------------------------------------- specification
Next ==
    \/ Add
    \/ CheckAddErr
    \/ CallAddCPUProfile
    \/ CallAddExecutionTrace
    \/ Start
    \/ Header
    \/ Deadline
    \/ Wait
    \/ StopBegin
    \/ StopEnd
    \/ Close
    \/ Join
    \/ ProducerWrite
    \/ ProducerFinish
    \/ PumpRead
    \/ PumpWrite
    \/ ProfileErr
    \/ Finish
    \/ OtherStartCPU
    \/ OtherStopCPU
    \/ OtherStartTrace
    \/ OtherStopTrace
    \/ ParentCancel

Spec == Init /\ [][Next]_vars

\* the Go scheduler runs every goroutine that can take a step, and the
\* timer of the capture's context fires: the calling goroutine
\* (Wait..Join), the pump goroutine (PumpRead, PumpWrite) and the
\* mechanism completing its writes once told to stop (ProducerFinish) are
\* not postponed for ever.  Whether the mechanism has more bytes to emit
\* (ProducerWrite) is up to the mechanism
Fairness ==
    /\ WF_vars(Deadline)
    /\ WF_vars(Wait)
    /\ WF_vars(StopBegin)
    /\ WF_vars(StopEnd)
    /\ WF_vars(Close)
    /\ WF_vars(Join)
    /\ WF_vars(ProducerFinish)
    /\ WF_vars(PumpRead)
    /\ WF_vars(PumpWrite)

\* Run under fair scheduling
FairSpec == Init /\ [][Next]_vars /\ Fairness

\* ---------------------------------------------------- linkedListBuffer
\* periodic/llbuf.go.  A buffer is [Size, head, tail, links]; a link is
\* [next, body, cap]: body is the unread and written part of the slice,
\* cap its capacity (cap(body) in Go)

\* largest Size field of a buffer
MaxSize == 2
\* longest slice handed to one Write
MaxWriteLen == 3
\* most bytes written to one buffer
MaxBufBytes == 5
\* longest slice handed to one Read
MaxReadLen == 2

\* llbuf.go:25
defaultSize == 16384

\* the variables of Collector.Run of package autoprof
runVars == <<opt, pc, step, addErr, ret, log, captureVars, envVars>>

\* no Collector of package autoprof is running
RunIdle ==
    /\ opt = [cpuDur |-> 0, traceDur |-> 0, custom |-> {}]
    /\ pc = "idle"
    /\ step = 1
    /\ addErr = Nil
    /\ ret = Nil
    /\ log = <<>>
    /\ cur = "none"
    /\ cpuProfile = FALSE
    /\ cpuBuf = <<>>
    /\ traceErr = Nil
    /\ ctxDone = FALSE
    /\ pipe = <<>>
    /\ pwClosed = FALSE
    /\ prod = IdleProducer
    /\ pump = NoPump
    /\ copyErr = Nil
    /\ lw = NoLimit
    /\ entry = <<>>

\* a link of capacity 1 whatever Size is
newLinkOfOne(b) == [next |-> 0, body |-> <<>>, cap |-> 1]

\* llbuf.go:23-30: a link with an empty body of capacity Size, or of the
\* default capacity when Size <= 0
newLink(b) ==
    [next |-> 0, body |-> <<>>,
     cap |-> IF b.Size <= 0 THEN defaultSize ELSE b.Size]

\* a Write that copies what fits into the tail link and drops the rest
WriteLoopNoChain(b, p) ==
    IF Len(p) = 0 THEN b
    ELSE LET t == b.links[b.tail]
             n == Min(t.cap - Len(t.body), Len(p))
         IN  [b EXCEPT !.links[b.tail].body = @ \o Take(p, n)]

RECURSIVE WriteLoop(_, _)
\* llbuf.go:38-49: copy what fits into the tail link; when nothing fitted,
\* chain a new link and make it the tail
WriteLoop(b, p) ==
    IF Len(p) = 0 THEN b
    ELSE LET t     == b.links[b.tail]
             start == Len(t.body)
             n     == Min(t.cap - start, Len(p))
             b2    == [b EXCEPT !.links[b.tail].body = @ \o Take(p, n)]
             new   == Len(b2.links) + 1
             b3    == IF n = 0
                      THEN [b2 EXCEPT
                              !.links = Append([@ EXCEPT ![b.tail].next = new],
                                               newLink(b)),
                              !.tail = new]
                      ELSE b2
         IN  WriteLoop(b3, Drop(p, n))

\* llbuf.go:32-51: linkedListBuffer.Write(p); returns (len(p), nil)
Write(b, p) ==
    LET new == Len(b.links) + 1
        b1  == IF b.head = 0 /\ Len(p) > 0
               THEN [b EXCEPT !.links = Append(@, newLink(b)),
                              !.tail = new, !.head = new]
               ELSE b
    IN  [b |-> WriteLoop(b1, p), n |-> Len(p), err |-> Nil]

\* a head link treated as used up whatever it still holds
ExhaustedAlways(body) == TRUE

\* a head link never treated as used up
ExhaustedNever(body) == FALSE

\* llbuf.go:61: the head link has no unread byte left
Exhausted(body) == Len(body) = 0

\* llbuf.go:53-66: linkedListBuffer.Read into a slice of length k
Read(b, k) ==
    IF b.head = 0
    THEN [b |-> b, data |-> <<>>, err |-> "EOF"]
    ELSE LET h    == b.links[b.head]
             n    == Min(k, Len(h.body))
             rest == Drop(h.body, n)
             b2   == [b EXCEPT !.links[b.head].body = rest,
                               !.links[b.head].cap = @ - n]
         IN  [b |-> IF Exhausted(rest) THEN [b2 EXCEPT !.head = h.next] ELSE b2,
              data |-> Take(h.body, n),
              err |-> Nil]

RECURSIVE Unread(_, _)
\* the unread bytes of the links from link j on
Unread(b, j) ==
    IF j = 0 THEN <<>> ELSE b.links[j].body \o Unread(b, b.links[j].next)

\* a fresh buffer of some Size; the zero value selects the default capacity
BufInit ==
    /\ RunIdle
    /\ cpuHolder = "none"
    /\ traceHolder = "none"
    /\ cpuStays = FALSE
    /\ traceStays = FALSE
    /\ parentDone = FALSE
    /\ PeriodicOff
    /\ llb \in {ZeroBuffer(size) : size \in 0..MaxSize}
    /\ wrote = <<>>
    /\ got = <<>>
    /\ bpc = "use"
    /\ call = NoBufCall

\* one Write call with the next bytes (a byte is its position in the stream)
BufWrite ==
    /\ bpc \in {"use", "eof"}
    /\ \E k \in 0..MaxWriteLen :
         /\ Len(wrote) + k <= MaxBufBytes
         /\ LET p == [j \in 1..k |-> Len(wrote) + j]
                w == Write(llb, p)
            IN  /\ llb' = w.b
                /\ wrote' = wrote \o p
                /\ call' = BufCall("Write", k, w.n, w.err)
    /\ bpc' = "use"
    /\ UNCHANGED <<got, runVars, periodicVars>>

\* one Read call; bpc notes whether it returned io.EOF
BufRead ==
    /\ bpc \in {"use", "eof"}
    /\ \E k \in 0..MaxReadLen :
         LET r == Read(llb, k)
         IN  /\ llb' = r.b
             /\ got' = got \o r.data
             /\ call' = BufCall("Read", k, Len(r.data), r.err)
             /\ bpc' = IF r.err = "EOF" THEN "eof" ELSE "use"
    /\ UNCHANGED <<wrote, runVars, periodicVars>>

BufNext == BufWrite \/ BufRead

BufSpec == BufInit /\ [][BufNext]_vars

\* --------------------------------------------------- periodic.Collector
\* periodic/llbuf.go:93-205: the scheduler that builds a bundle every
\* interval and hands it to StoreBundle

\* number of iterations of the loop the model follows
MaxRuns == 2
\* defaultProfileInterval, in units of 12 seconds instead of nanoseconds
defaultProfileInterval == 10
\* execTraceMaxPeriod (100 in llbuf.go:142), scaled down
execTraceMaxPeriod == 2
\* bytes one Read of io.ReadAll asks for
ReadAllBuf == 2

\* llbuf.go:137, in seconds
cpuProfileDuration == 5

\* llbuf.go:146, in seconds
execTraceDuration == 1

\* an event of the scheduler's history
SEv(e, n, d) == [ev |-> e, i |-> n, data |-> d]

\* an options that never zeroes the durations
FirstRunNever(n) == FALSE

\* llbuf.go:153: the first run
FirstRun(n) == n = 0

\* a counter set to i plus the random offset, without the 1
NextAfterNoStep(n, k) == n + k

\* llbuf.go:145: r.nextExecTrace = i + 1 + r.rng.Intn(execTraceMaxPeriod)
NextAfter(n, k) == n + 1 + k

\* llbuf.go:134-159: runner.options(n) with nextExecTrace = next and k the
\* value of rng.Intn(execTraceMaxPeriod), drawn when next = n.  The byte
\* targets it sets (1e6, 1e7) are positive targets; the capture draws its
\* target when it uses it (TargetSizes)
options(n, next, k) ==
    LET hit == next = n
    IN  [opts |-> [cpuDur |-> IF FirstRun(n) THEN 0 ELSE cpuProfileDuration,
                   traceDur |-> IF hit /\ ~FirstRun(n)
                                THEN execTraceDuration ELSE 0,
                   custom |-> {}],
         nextExecTrace |-> IF hit THEN NextAfter(n, k) ELSE next]

\* a trim range that is the whole interval in every iteration
maxTrimWhole(n) == defaultProfileInterval

\* llbuf.go:166-169: the exclusive upper limit of the trim
maxTrim(n) ==
    IF n > 0 THEN defaultProfileInterval \div 5 ELSE defaultProfileInterval

RECURSIVE ReadAll(_)
\* io.ReadAll(llb): Read until io.EOF
ReadAll(b) ==
    LET r == Read(b, ReadAllBuf)
    IN  IF r.err = "EOF" THEN <<>> ELSE r.data \o ReadAll(r.b)

\* what a run wrote into its archive, as far as the history holds it: the
\* entries it opened, the writes of the static sources and of the profile
\* taken during the trace, the central directory of finish
Written(l) ==
    LET okay == SelectSeq(l, LAMBDA e : e.ev \in {"hdr", "write", "finish"} /\ e.ok)
    IN  [j \in 1..Len(okay) |-> <<okay[j].ev, okay[j].name>>]

\* periodic.Collector.Run is called; the process may already run a CPU
\* profile or an execution trace for somebody else
PeriodicInit ==
    /\ RunIdle
    /\ cpuHolder \in {"none", "other"}
    /\ traceHolder \in {"none", "other"}
    /\ cpuStays = FALSE
    /\ traceStays = FALSE
    /\ parentDone = FALSE
    /\ sched = "seed"
    /\ iter = 0
    /\ nextExecTrace = 0
    /\ timer = 0
    /\ schedRet = Nil
    /\ slog = <<>>
    /\ BufOff

\* the Collector of the run is dropped
RunReset ==
    /\ opt' = [cpuDur |-> 0, traceDur |-> 0, custom |-> {}]
    /\ pc' = "idle"
    /\ step' = 1
    /\ addErr' = Nil
    /\ ret' = Nil
    /\ log' = <<>>
    /\ cur' = "none"
    /\ cpuProfile' = FALSE
    /\ cpuBuf' = <<>>
    /\ traceErr' = Nil
    /\ NoCall

\* a scheduler that goes on with the next delay after an error
SchedRetry(e) ==
    /\ sched' = "delay"
    /\ schedRet' = schedRet

\* periodic.Collector.Run returns e
SchedReturn(e) ==
    /\ sched' = "returned"
    /\ schedRet' = e

\* llbuf.go:100-104: the seed from crypto/rand; an error ends Run
SchedSeed ==
    /\ sched = "seed"
    /\ \E ok \in BOOLEAN :
         IF ok THEN sched' = "delay" /\ schedRet' = schedRet
         ELSE SchedReturn("err:seed")
    /\ UNCHANGED <<iter, nextExecTrace, timer, slog>>
    /\ UNCHANGED <<runVars, bufVars>>

\* llbuf.go:112, 161-172: r.delay(ctx, i) draws the trim and starts the
\* timer
SchedDelay ==
    /\ sched = "delay"
    /\ iter < MaxRuns
    /\ \E trim \in 0..(maxTrim(iter) - 1) :
         timer' = defaultProfileInterval - trim
    /\ sched' = "sleep"
    /\ slog' = Append(slog, SEv("delay", iter, <<>>))
    /\ UNCHANGED <<iter, nextExecTrace, schedRet>>
    /\ UNCHANGED <<runVars, bufVars>>

\* llbuf.go:175-178: the select returns, because the timer fired or
\* because the context is done
SchedWake ==
    /\ sched = "sleep"
    /\ sched' = "check"
    /\ timer' = 0
    /\ UNCHANGED <<iter, nextExecTrace, schedRet, slog>>
    /\ UNCHANGED <<runVars, bufVars>>

\* a context that never reports its cancellation
CtxErrNever(done) == Nil

\* ctx.Err(): nil until the context is done
CtxErr(done) == IF done THEN "context canceled" ELSE Nil

\* llbuf.go:113-117: ctx.Err() after the delay
SchedCtxErr ==
    /\ sched = "check"
    /\ IF CtxErr(parentDone) # Nil THEN SchedReturn(CtxErr(parentDone))
       ELSE sched' = "options" /\ schedRet' = schedRet
    /\ UNCHANGED <<iter, nextExecTrace, timer, slog>>
    /\ UNCHANGED <<runVars, bufVars>>

\* llbuf.go:119: opts := r.options(i)
SchedOptions ==
    /\ sched = "options"
    /\ \E k \in 0..(execTraceMaxPeriod - 1) :
         LET o == options(iter, nextExecTrace, k)
         IN  /\ opt' = o.opts
             /\ nextExecTrace' = o.nextExecTrace
             /\ slog' = Append(slog, SEv("options", iter, o.opts))
    /\ sched' = "store"
    /\ UNCHANGED <<iter, timer, schedRet>>
    /\ UNCHANGED <<pc, step, addErr, ret, log, captureVars, envVars>>
    /\ UNCHANGED bufVars

\* llbuf.go:181-190: r.store builds a Collector over a fresh buffer and
\* calls its Run with the scheduler's context
StoreRun ==
    /\ sched = "store"
    /\ sched' = "run"
    /\ pc' = "add"
    /\ cpuStays' = (cpuHolder = "other")
    /\ traceStays' = (traceHolder = "other")
    /\ slog' = Append(slog, SEv("run", iter, <<>>))
    /\ UNCHANGED <<opt, step, addErr, ret, log, captureVars>>
    /\ UNCHANGED <<cpuHolder, traceHolder, parentDone>>
    /\ UNCHANGED <<iter, nextExecTrace, timer, schedRet>>
    /\ UNCHANGED bufVars

\* llbuf.go:190-204 and 120-123: Run has returned.  An error ends the
\* scheduler; else the buffer is read and handed to StoreBundle and the
\* loop goes on with i + 1.  archive/zip writes through a bufio.Writer;
\* what the run wrote reaches the buffer in one Write here
StoreBundle ==
    /\ sched = "run"
    /\ pc = "done"
    /\ IF ret # Nil
       THEN /\ SchedReturn(ret)
            /\ slog' = slog
            /\ iter' = iter
       ELSE /\ sched' = "delay"
            /\ schedRet' = schedRet
            /\ slog' = Append(slog,
                   SEv("StoreBundle", iter,
                       ReadAll(Write(ZeroBuffer(0), Written(log)).b)))
            /\ iter' = iter + 1
    /\ RunReset
    /\ UNCHANGED <<nextExecTrace, timer>>
    /\ UNCHANGED envVars
    /\ UNCHANGED bufVars

\* the scheduler's context is cancelled: during a delay, between the check
\* and the start of the run, or as the run begins (the static sources do
\* not look at the context; ParentCancel is the cancellation during a
\* capture)
CtxCancel ==
    /\ \/ sched \in {"sleep", "options", "store"}
       \/ sched = "run" /\ pc = "add" /\ step = 1
    /\ ~parentDone
    /\ parentDone' = TRUE
    /\ UNCHANGED <<opt, pc, step, addErr, ret, log, captureVars>>
    /\ UNCHANGED <<cpuHolder, traceHolder, cpuStays, traceStays>>
    /\ UNCHANGED outerVars

PeriodicNext ==
    \/ SchedSeed
    \/ SchedDelay
    \/ SchedWake
    \/ SchedCtxErr
    \/ SchedOptions
    \/ StoreRun
    \/ StoreBundle
    \/ CtxCancel
    \/ Next

PeriodicSpec == PeriodicInit /\ [][PeriodicNext]_vars

\* ------------------------------------------------- runner.options alone
\* number of options calls the model follows
MaxOptionsCalls == 8

\* a fresh runner: nextExecTrace is 0, the loop counter is 0
OptionsInit ==
    /\ RunIdle
    /\ cpuHolder = "none"
    /\ traceHolder = "none"
    /\ cpuStays = FALSE
    /\ traceStays = FALSE
    /\ parentDone = FALSE
    /\ sched = "options"
    /\ iter = 0
    /\ nextExecTrace = 0
    /\ timer = 0
    /\ schedRet = Nil
    /\ slog = <<>>
    /\ BufOff

\* llbuf.go:111, 119: the loop calls r.options(i) for i = 0, 1, 2, ...; the
\* history keeps the options returned and the counter before and after
OptionsCall ==
    /\ sched = "options"
    /\ iter < MaxOptionsCalls
    /\ \E k \in 0..(execTraceMaxPeriod - 1) :
         LET o == options(iter, nextExecTrace, k)
         IN  /\ nextExecTrace' = o.nextExecTrace
             /\ slog' = Append(slog,
                    SEv("options", iter,
                        [opts |-> o.opts, before |-> nextExecTrace,
                         after |-> o.nextExecTrace]))
    /\ iter' = iter + 1
    /\ UNCHANGED <<sched, timer, schedRet>>
    /\ UNCHANGED <<runVars, bufVars>>

OptionsSpec == OptionsInit /\ [][OptionsCall]_vars

\* ================================================================ claims
\* the names passed to writeFileHeader so far, in call order
HdrNames ==
    LET h == SelectSeq(log, LAMBDA e : e.ev = "hdr")
    IN  [i \in 1..Len(h) |-> h[i].name]

\* writeFileHeader was called with name n
Opened(n) == \E i \in 1..Len(log) : log[i].ev = "hdr" /\ log[i].name = n

\* the archive has an entry n: writeFileHeader(n) succeeded
InArchive(n) ==
    \E i \in 1..Len(log) : log[i].ev = "hdr" /\ log[i].name = n /\ log[i].ok

\* call e was made on n
Called(e, n) == \E i \in 1..Len(log) : log[i].ev = e /\ log[i].name = n

\* the sink accepted every entry header, every write and the finish step
SinkOK ==
    \A i \in 1..Len(log) : log[i].ev \in {"hdr", "write", "finish"} => log[i].ok

\* every WriteTo of a static or custom source returned nil
SourcesOK == \A i \in 1..Len(log) : log[i].ev = "writeTo" => log[i].ok

\* no start of a capture mechanism found it busy
StartsOK == \A i \in 1..Len(log) : log[i].ev = "start" => log[i].ok

\* no start of mechanism m found it busy
StartsOKFor(m) ==
    \A i \in 1..Len(log) : (log[i].ev = "start" /\ log[i].name = m) => log[i].ok

CaptureNames == {profileName, traceName, profileDuringTraceName}

Both == opt.cpuDur > 0 /\ opt.traceDur > 0

RECURSIVE IsSubseq(_, _)
\* a is b with some elements left out
IsSubseq(a, b) ==
    IF a = <<>> THEN TRUE
    ELSE IF b = <<>> THEN FALSE
    ELSE IF Head(a) = Head(b) THEN IsSubseq(Tail(a), Tail(b))
    ELSE IsSubseq(a, Tail(b))

\* the order of entries the documentation fixes for these options
FixedOrder ==
    LET others == SelectSeq(Profiles, LAMBDA n : n # "heap")
        custom == SelectSeq(CustomUniverse, LAMBDA n : n \in opt.custom)
    IN  <<"meta", "expvar", "pprof/heap">>
        \o [i \in 1..Len(others) |-> "pprof/" \o PathEscape(others[i])]
        \o [i \in 1..Len(custom) |-> "custom/" \o PathEscape(custom[i])]
        \o <<profileName, traceName, profileDuringTraceName>>

\* C1: at every moment of every Run the names passed to writeFileHeader
\* are a subsequence of the fixed order (meta, expvar, pprof/heap, the
\* other profiles in enumeration order, the custom sources by name, then
\* pprof/profile, pprof/trace, pprof/profile-during-trace), and meta, when
\* it is there, is the first
C1_EntryOrder ==
    LET h == HdrNames
    IN  /\ IsSubseq(h, FixedOrder)
        /\ \A i \in 1..Len(h) : h[i] = "meta" => i = 1

\* a Run that opened every entry of the fixed order, two custom ones included
C1_Witness ==
    /\ pc = "done"
    /\ Cardinality(opt.custom) >= 2
    /\ HdrNames = FixedOrder

\* C2: when Run has returned, no CPU profile and no execution trace that
\* this Run started is still running
C2_NoCaptureLeftRunning ==
    pc = "done" => cpuHolder # "self" /\ traceHolder # "self"

\* what holds of a Run under a CPU profile another party keeps running,
\* whatever the sink does
C3_Undisturbed ==
    /\ ~Opened(profileName)
    /\ ~Opened(profileDuringTraceName)
    /\ ~Called("stop", "cpu")
    /\ cpuHolder = "other"

\* C3 as stated: with another party's CPU profile running from before Run
\* to after it, a Run asked for both captures returns nil, writes
\* pprof/trace, writes neither CPU entry and never stops the CPU profile
C3_Original ==
    (pc = "done" /\ cpuStays /\ Both) =>
        ret = Nil /\ InArchive(traceName) /\ C3_Undisturbed

\* C3 amended: the CPU entries are left out and the CPU profile is left
\* alone in every such Run; the Run returns nil and has written pprof/trace
\* when moreover the trace was free to start, no source failed and the
\* sink accepted everything
C3_BusyCPU ==
    (pc = "done" /\ cpuStays /\ Both) =>
        /\ C3_Undisturbed
        /\ (SinkOK /\ SourcesOK /\ Called("start", "trace") /\ StartsOKFor("trace"))
              => ret = Nil /\ InArchive(traceName)

\* such a Run, which found the CPU profile busy twice and wrote the trace
C3_Witness ==
    /\ pc = "done" /\ cpuStays /\ Both
    /\ SinkOK /\ SourcesOK
    /\ InArchive(traceName)
    /\ ret = Nil

\* what holds of a Run under a trace another party keeps running
C4_Undisturbed ==
    /\ ~Opened(traceName)
    /\ ~Called("stop", "trace")
    /\ traceHolder = "other"

\* C4 as stated: with another party's trace running from before Run to
\* after it, a Run asked for a trace returns nil, writes no pprof/trace
\* and never stops the trace
C4_Original ==
    (pc = "done" /\ traceStays /\ opt.traceDur > 0) =>
        ret = Nil /\ C4_Undisturbed

\* C4 amended: no pprof/trace and no trace stop in every such Run; the
\* Run returns nil when no source failed and the sink accepted everything
C4_BusyTrace ==
    (pc = "done" /\ traceStays /\ opt.traceDur > 0) =>
        /\ C4_Undisturbed
        /\ (SinkOK /\ SourcesOK) => ret = Nil

\* such a Run, whose trace start failed and which returned nil
C4_Witness ==
    /\ pc = "done" /\ traceStays /\ opt.traceDur > 0
    /\ Called("start", "trace")
    /\ ret = Nil

\* what C5 promises of the Run
C5_AllThree ==
    /\ ret = Nil
    /\ InArchive(profileName)
    /\ InArchive(traceName)
    /\ InArchive(profileDuringTraceName)
    /\ cpuHolder = "none"
    /\ traceHolder = "none"

\* neither mechanism was busy for this Run
NotBusy == StartsOK /\ cpuHolder # "other" /\ traceHolder # "other"

\* C5 as stated: both captures requested, neither mechanism busy, the sink
\* accepts every write: Run returns nil, the three capture entries are in
\* the archive, neither mechanism is active at the return
C5_Original ==
    (pc = "done" /\ Both /\ NotBusy /\ SinkOK) => C5_AllThree

\* C5 amended: the same when moreover no static or custom source failed
C5_BothCaptures ==
    (pc = "done" /\ Both /\ NotBusy /\ SinkOK /\ SourcesOK) => C5_AllThree

\* a Run with both captures and a custom source
C5_Witness ==
    /\ pc = "done" /\ Both /\ NotBusy /\ SinkOK /\ SourcesOK
    /\ opt.custom # {}
    /\ InArchive(profileDuringTraceName)

\* C6: when exactly one capture is requested and its mechanism was free to
\* start, that mechanism is not running once Run has returned
C6_OneCaptureInactive ==
    /\ (pc = "done" /\ opt.cpuDur > 0 /\ opt.traceDur = 0
            /\ Called("start", "cpu") /\ StartsOK)
         => cpuHolder # "self"
    /\ (pc = "done" /\ opt.traceDur > 0 /\ opt.cpuDur = 0
            /\ Called("start", "trace") /\ StartsOK)
         => traceHolder # "self"

FinishCalls == {i \in 1..Len(log) : log[i].ev = "finish"}

\* the static phase and every capture call of the Run succeeded
AllSucceeded ==
    /\ addErr = Nil
    /\ \A i \in 1..Len(log) : log[i].ev = "returned" => log[i].ok

\* C8: finish is called at most once; a Run whose static phase and
\* captures all succeeded calls it exactly once, after every other call on
\* the archive and with no pump running, and returns its result
C8_FinishOnce ==
    /\ Cardinality(FinishCalls) <= 1
    /\ pc = "finish" => pump.state = "none" /\ cur = "none"
    /\ (pc = "done" /\ AllSucceeded) =>
         /\ Cardinality(FinishCalls) = 1
         /\ \A f \in FinishCalls :
              /\ \A j \in 1..Len(log) :
                   log[j].ev \in {"hdr", "write", "writeTo"} => j < f
              /\ ret = IF log[f].ok THEN Nil ELSE "err:finish"

\* a Run that wrote a capture entry and then failed in finish
C8_Witness ==
    /\ pc = "done"
    /\ InArchive(traceName)
    /\ \E f \in FinishCalls : ~log[f].ok

\* position i of the history is a failed static addition
StaticFail(i) ==
    \/ log[i].ev = "hdr" /\ ~log[i].ok /\ log[i].name \notin CaptureNames
    \/ log[i].ev = "writeTo" /\ ~log[i].ok

\* its error
ErrorAt(i) ==
    IF log[i].ev = "hdr" THEN "err:header:" \o log[i].name ELSE log[i].data[1]

\* C9: after a failed static addition no entry is opened, no source is
\* asked to write, no capture is started, finish is not called, and Run
\* returns the error of that addition
C9_FirstErrorShortCircuits ==
    \A i \in 1..Len(log) :
        StaticFail(i) =>
            /\ \A j \in (i + 1)..Len(log) :
                 log[j].ev \notin {"hdr", "write", "writeTo", "start", "stop", "finish"}
            /\ pc = "done" => ret = ErrorAt(i)

\* a Run that failed before its last custom source and has returned
C9_Witness ==
    /\ pc = "done"
    /\ Cardinality(opt.custom) >= 2
    /\ \E i \in 1..Len(log) : StaticFail(i) /\ log[i].name = "pprof/heap"

\* C10: a write the sink rejects while a static source is written is
\* fatal: no later entry is opened and Run returns a non-nil error
C10_SinkRejectionFatal ==
    \A i \in 1..Len(log) :
        (log[i].ev = "write" /\ ~log[i].ok /\ log[i].name \notin CaptureNames) =>
            /\ \A j \in (i + 1)..Len(log) : log[j].ev # "hdr"
            /\ pc = "done" => ret # Nil

\* a step in which addTimeBasedProfile called start and start failed for
\* the mechanism of the capture
StartFailedStep ==
    /\ pc = "start"
    /\ pc' # "start"
    /\ \E j \in (Len(log) + 1)..Len(log') :
         log'[j].ev = "start" /\ log'[j].name = Mech /\ ~log'[j].ok

\* C11: when start fails, the capture call returns nil in the same step:
\* Run goes on with what follows the capture (the trace capture after the
\* CPU capture, the profile-during-trace step after the trace capture), no
\* entry is opened, nothing is written, no pump is launched and stop is
\* not called
C11_StartFailureSkips ==
    [][StartFailedStep =>
          /\ pc' = (IF cur = "cpu" THEN "trace" ELSE "profileErr")
          /\ ret' = Nil
          /\ cur = "trace" => traceErr' = Nil
          /\ cur = "cpu" =>
                log'[Len(log')] = Ev("returned", "addCPUProfile", TRUE)
          /\ pump' = NoPump
          /\ cur' = "none"
          /\ \A j \in (Len(log) + 1)..Len(log') :
                log'[j].ev \notin {"hdr", "write", "stop"}]_vars

\* a trace capture skipped because the trace was busy, after its start had
\* taken the CPU profile
C11_Witness ==
    /\ pc = "profileErr"
    /\ traceErr = Nil
    /\ ~StartsOKFor("trace")
    /\ cpuProfile
    /\ ~Opened(traceName)

\* the capture call has returned to addCPUProfile or addExecutionTrace
CaptureReturned == pc \in {"trace", "profileErr", "finish", "done"}

\* C12: under fair scheduling a capture that started and opened its entry
\* comes to its end: the call of addTimeBasedProfile returns
C12_CaptureFinishes == (pc = "wait") ~> CaptureReturned

\* the bytes the mechanism has written into the pipe, in order
Produced == [i \in 1..prod.sent |-> i]

\* the capture call is about to return: the pump has finished
AboutToReturn == pc = "join" /\ pump.state = "done"

\* C13: while the copy has not failed, the entry, the pump's buffer and the
\* pipe hold the produced bytes in order, and when the call is about to
\* return after the pump saw the close, all of them are in the entry
C13_AllBytesFlushed ==
    /\ (cur # "none" /\ copyErr = Nil) =>
          entry \o pump.buf \o pipe = Produced
    /\ (AboutToReturn /\ copyErr = Nil) =>
          /\ entry = Produced
          /\ pwClosed
          /\ prod.state = "finished"

\* a capture about to return with bytes written before and during stop
C13_Witness ==
    /\ AboutToReturn
    /\ copyErr = Nil
    /\ Len(entry) >= 2
    /\ entry = Produced

\* the state of an installed limitTriggerWriter is coherent: fn is called
\* at most once, it has been called exactly when it is nil, and that is
\* when the budget is used up
LimitCoherent ==
    /\ lw.calls <= 1
    /\ lw.on =>
          /\ lw.calls = 1 <=> ~lw.fn
          /\ lw.calls = 1 <=> lw.remaining <= 0

\* C14: the cancellation callback of the size-limit trigger is invoked at
\* most once; every Write through it reaches the entry with the same bytes
\* in the same order, before and after the callback fired, and is counted
\* by the number of bytes the wrapped writer took; the entry of a capture
\* whose copy did not fail holds all the produced bytes, not cut at the
\* target
C14_LimitTrigger ==
    /\ [](LimitCoherent
           /\ ((lw.on /\ copyErr = Nil) =>
                  entry \o pump.buf \o pipe = Produced)
           /\ ((lw.on /\ AboutToReturn /\ copyErr = Nil) =>
                  entry = Produced))
    /\ [][(lw.on /\ lw'.on) =>
             /\ lw.remaining - lw'.remaining = Len(entry') - Len(entry)
             /\ lw'.calls >= lw.calls]_vars

\* a capture whose trigger fired at the first byte and whose entry then
\* took a second byte
C14_Witness ==
    /\ lw.on
    /\ lw.calls = 1
    /\ lw.remaining < 0
    /\ Len(entry) >= 2
    /\ ctxDone

\* C20: the bytes read from a linkedListBuffer followed by the bytes still
\* unread in it are the bytes written, in order; when Read returns io.EOF
\* the bytes read are exactly the bytes written, for every chunk size,
\* 1 and the zero value included
C20_RoundTrip ==
    bpc \in {"use", "eof"} =>
        /\ got \o Unread(llb, llb.head) = wrote
        /\ bpc = "eof" => got = wrote

\* all the bytes written through chunks of size 1, spread over several
\* links, and read back up to io.EOF
C20_Witness ==
    /\ bpc = "eof"
    /\ llb.Size = 1
    /\ Len(llb.links) >= 3
    /\ Len(wrote) = MaxBufBytes
    /\ got = wrote

\* the same with the zero value of Size
C20_WitnessDefault ==
    /\ bpc = "eof"
    /\ llb.Size = 0
    /\ Len(wrote) = MaxBufBytes
    /\ got = wrote

\* the scheduler's events of kind e, in order
SEvents(e) == SelectSeq(slog, LAMBDA x : x.ev = e)

\* C15: options(0) has CPU duration 0 and trace duration 0 for every value
\* of nextExecTrace and every random draw, and options(n) for n > 0 has the
\* fixed non-zero CPU duration; so has every options call the scheduler
\* made, and the run of iteration 0 starts no capture and opens no capture
\* entry
C15_FirstBundleStatic ==
    /\ cpuProfileDuration > 0
    /\ \A next \in 0..(MaxRuns + execTraceMaxPeriod),
          k \in 0..(execTraceMaxPeriod - 1) :
          /\ options(0, next, k).opts.cpuDur = 0
          /\ options(0, next, k).opts.traceDur = 0
          /\ \A n \in 1..MaxRuns :
                options(n, next, k).opts.cpuDur = cpuProfileDuration
    /\ \A j \in 1..Len(slog) :
          slog[j].ev = "options" =>
              IF slog[j].i = 0
              THEN slog[j].data.cpuDur = 0 /\ slog[j].data.traceDur = 0
              ELSE slog[j].data.cpuDur = cpuProfileDuration
    /\ (sched = "run" /\ iter = 0) =>
          /\ \A j \in 1..Len(log) : log[j].ev \notin {"start", "stop"}
          /\ \A n \in CaptureNames : ~Opened(n)

\* the first bundle, with static entries only, was stored and options was
\* called for the second iteration
C15_Witness ==
    /\ \E j \in 1..Len(slog) :
          /\ slog[j].ev = "StoreBundle"
          /\ slog[j].i = 0
          /\ slog[j].data # <<>>
    /\ \E j \in 1..Len(slog) : slog[j].ev = "options" /\ slog[j].i = 1

\* C16: while the scheduler sleeps before iteration i its delay is D minus
\* a trim from [0, D) when i = 0 and from [0, D/5) when i > 0: at most D,
\* not negative, and at least 0.8 * D when i > 0
C16_DelayRange ==
    sched = "sleep" =>
        LET D == defaultProfileInterval
        IN  /\ \E trim \in 0..((IF iter = 0 THEN D ELSE D \div 5) - 1) :
                  timer = D - trim
            /\ timer <= D
            /\ timer >= 0
            /\ iter > 0 => 5 * timer >= 4 * D

\* a shortened delay before a later iteration
C16_Witness ==
    /\ sched = "sleep"
    /\ iter > 0
    /\ timer < defaultProfileInterval

\* the scheduler's history is one attempt per iteration: run events for
\* iterations 0, 1, 2, ..., StoreBundle events for iterations 0, 1, 2, ...,
\* each StoreBundle right after the run of its iteration, and at most the
\* last run without one
OneAttemptEach ==
    LET runs   == SEvents("run")
        stores == SEvents("StoreBundle")
    IN  /\ \A j \in 1..Len(runs) : runs[j].i = j - 1
        /\ \A j \in 1..Len(stores) : stores[j].i = j - 1
        /\ Len(stores) <= Len(runs)
        /\ Len(runs) <= Len(stores) + 1
        /\ \A j \in 1..Len(slog) :
              slog[j].ev = "StoreBundle" =>
                  j > 1 /\ slog[j - 1] = SEv("run", slog[j].i, <<>>)
        /\ sched = "returned" => pc = "idle"

\* the step in which store comes back from the assembler run: a nil run is
\* stored, with what it wrote, and the loop goes on; a failed run is not
\* stored and its error is what the scheduler returns
StoreStep ==
    (sched = "run" /\ sched' # "run") =>
        IF ret = Nil
        THEN /\ sched' = "delay"
             /\ iter' = iter + 1
             /\ slog' = Append(slog, SEv("StoreBundle", iter, Written(log)))
        ELSE /\ sched' = "returned"
             /\ schedRet' = ret
             /\ slog' = slog

\* C17: the scheduler never retries: StoreBundle is called once for each
\* run that returned nil, in iteration order, with what the run wrote,
\* never for a failed run; after the first failed run the scheduler has
\* returned its error and takes no further step
C17_NoRetry ==
    /\ []OneAttemptEach
    /\ [][StoreStep /\ sched # "returned"]_vars

\* a scheduler that stored its first bundle and returned the error of its
\* second run
C17_Witness ==
    /\ sched = "returned"
    /\ schedRet \notin {Nil, "err:seed", "context canceled"}
    /\ Len(SEvents("StoreBundle")) >= 1

\* C18 as stated: once the context is cancelled no assembler run is started
C18_Original ==
    [][parentDone => ~(sched = "store" /\ sched' = "run")]_vars

\* what the scheduler does under a cancelled context: a delay ends, a
\* check returns the context error and calls nothing
CancelledStep ==
    /\ (sched = "sleep" /\ parentDone) => sched' = "check"
    /\ (sched = "check" /\ parentDone) =>
          /\ sched' = "returned"
          /\ schedRet' = "context canceled"
          /\ slog' = slog
          /\ pc' = "idle"

\* C18 amended: a delay under a cancelled context can end and does nothing
\* else; the check after the delay, when it sees the cancellation, makes
\* the scheduler return the context error with no call of options or store
\* for that iteration (a cancellation after the check does not prevent
\* the run of that iteration)
C18_CancelStopsLoop ==
    /\ []((sched = "sleep" /\ parentDone) => ENABLED SchedWake)
    /\ []((sched = "returned" /\ schedRet = "context canceled") =>
             /\ slog # <<>>
             /\ slog[Len(slog)] = SEv("delay", iter, <<>>))
    /\ [][CancelledStep]_vars

\* a scheduler cancelled during the delay before its second iteration
C18_Witness ==
    /\ sched = "returned"
    /\ schedRet = "context canceled"
    /\ iter >= 1
    /\ Len(SEvents("StoreBundle")) = iter

\* C19: an assembler run of the scheduler that was cancelled on its way
\* (its buffer accepts every write, its sources do not fail) has, when it
\* returns, finalized the archive, returned nil and left no capture it
\* started running
C19_CancelDuringRun ==
    (sched = "run" /\ pc = "done" /\ parentDone /\ SinkOK /\ SourcesOK) =>
        /\ ret = Nil
        /\ Called("finish", "")
        /\ cpuHolder # "self"
        /\ traceHolder # "self"

\* the positions of the calls e on n in the history
CallsOf(e, n) == {i \in 1..Len(log) : log[i].ev = e /\ log[i].name = n}

\* the step in which the call of addTimeBasedProfile returns after its
\* start had succeeded
StartedCaptureReturns == cur # "none" /\ cur' = "none" /\ prod.state # "idle"

\* the step in which stop() is called
StopCalled == Len(log') > Len(log) /\ log'[Len(log) + 1].ev = "stop"
                 /\ pc = "stop"

\* C21: a started capture has, when its call returns, invoked stop exactly
\* once and closed the write end of the pipe exactly once, stop first;
\* neither is ever done twice, and stop is invoked only after the
\* capture's context is done (deadline, size trigger or cancellation)
C21_StopCloseOnce ==
    /\ [](/\ cur # "none" => Cardinality(CallsOf("stop", Mech)) <= 1
          /\ \A m \in {"cpu", "trace"} :
                /\ Cardinality(CallsOf("close", m)) <= 1
                /\ \A c \in CallsOf("close", m) :
                      \E t \in CallsOf("stop", m) : t < c)
    /\ [][StopCalled => (ctxDone \/ parentDone)]_vars
    /\ [][StartedCaptureReturns =>
             /\ Cardinality(CallsOf("stop", Mech)) = 1
             /\ Cardinality(CallsOf("close", Mech)) = 1]_vars

\* C22: a limitTriggerWriter is installed exactly for a positive byte
\* target; its callback has been called exactly when the bytes the wrapped
\* writer accepted have reached the target, it is called during the Write
\* that takes the count from below the target to the target or beyond, and
\* that Write ends the capture's wait; without a trigger the capture's
\* context is done only by its deadline, never by a Write
C22_TriggerAtTarget ==
    /\ [](/\ \A t \in TargetSizes : Wrap(t).on <=> t > 0
          /\ lw.on => (lw.calls = 1 <=> Len(entry) >= lw.target)
          /\ ~lw.on => lw.calls = 0)
    /\ [][(lw.on /\ lw'.on /\ lw'.calls > lw.calls) =>
             /\ Len(entry) < lw.target
             /\ Len(entry') >= lw.target
             /\ ctxDone']_vars
    /\ [][(cur # "none" /\ ~lw.on /\ ~ctxDone /\ ctxDone') =>
             /\ pc = "wait"
             /\ entry' = entry
             /\ pump' = pump]_vars

\* a trigger with target 1 that fired in a Write of two bytes or in the
\* first of two Writes, the capture now past its wait
C22_Witness ==
    /\ lw.on
    /\ lw.target = 1
    /\ lw.calls = 1
    /\ entry = <<1, 2>>
    /\ pc = "stop"

\* the start and stop calls made on the capture mechanisms since the call
\* of addExecutionTrace, in order
TraceCaptureCalls ==
    LET r    == {i \in 1..Len(log) :
                   log[i].ev = "returned" /\ log[i].name = "addCPUProfile"}
        from == IF r = {} THEN 0 ELSE CHOOSE i \in r : \A j \in r : j <= i
        l    == SelectSeq(SubSeq(log, from + 1, Len(log)),
                          LAMBDA e : e.ev \in {"start", "stop"})
    IN  [j \in 1..Len(l) |-> <<l[j].ev, l[j].name>>]

\* CPU start, trace start, trace stop, CPU stop
EnclosingOrder ==
    <<(<<"start", "cpu">>), (<<"start", "trace">>),
      (<<"stop", "trace">>), (<<"stop", "cpu">>)>>

\* this run started the wrapping CPU profile and the trace
BothStarted ==
    /\ cpuProfile
    /\ \E i \in 1..Len(log) : log[i] = Ev("start", "trace", TRUE)

\* C23: in the combined capture, when this run started both the wrapping
\* CPU profile and the trace, the calls on the mechanisms are, in order,
\* CPU start, trace start, trace stop, CPU stop (all four once stop has
\* returned), and the trace runs only while the CPU profile runs
C23_TraceInsideCPU ==
    BothStarted =>
        /\ Len(TraceCaptureCalls) >= 2
        /\ TraceCaptureCalls = Take(EnclosingOrder, Len(TraceCaptureCalls))
        /\ traceHolder = "self" => cpuHolder = "self"
        /\ (Called("stop", "trace") /\ pc # "stopping") =>
              /\ TraceCaptureCalls = EnclosingOrder
              /\ traceHolder # "self"
              /\ cpuHolder # "self"

\* a combined capture, after a plain CPU capture, that has stopped both
C23_Witness ==
    /\ BothStarted
    /\ pc = "profileErr"
    /\ Called("returned", "addCPUProfile")
    /\ InArchive(profileName)
    /\ TraceCaptureCalls = EnclosingOrder

\* C24: an archive that has the entry pprof/profile-during-trace comes
\* from a run that started the trace, has pprof/trace, and the wrapping CPU
\* profile was stopped before that entry was opened; a run whose wrapping
\* CPU profile could not start does not open the entry
C24_ProfileDuringTrace ==
    /\ \A i \in 1..Len(log) :
          (log[i].ev = "hdr" /\ log[i].name = profileDuringTraceName /\ log[i].ok) =>
              /\ \E j \in 1..(i - 1) : log[j] = Ev("start", "trace", TRUE)
              /\ \E j \in 1..(i - 1) : log[j] = Ev("hdr", traceName, TRUE)
              /\ \E j \in 1..(i - 1) :
                    /\ log[j] = Ev("stop", "cpu", TRUE)
                    /\ \E k \in 1..(j - 1) : log[k] = Ev("stop", "trace", TRUE)
    /\ ~cpuProfile => ~Opened(profileDuringTraceName)

\* the error of the profile-during-trace step, read off the calls l it made
ProfileErrOf(l) ==
    IF \E j \in 1..Len(l) : l[j] = Ev("hdr", profileDuringTraceName, FALSE)
    THEN "err:header:" \o profileDuringTraceName
    ELSE IF \E j \in 1..Len(l) :
               /\ l[j].ev = "write"
               /\ l[j].name = profileDuringTraceName
               /\ ~l[j].ok
    THEN "err:write:" \o profileDuringTraceName
    ELSE Nil

\* the step in which addExecutionTrace returns: a trace error is returned
\* whatever the profile entry did, an error of the profile entry only with
\* a nil trace error; Run returns a non-nil error at once
ExecutionTraceReturns ==
    pc = "profileErr" =>
        LET profileErr == ProfileErrOf(SubSeq(log', Len(log) + 1, Len(log')))
            e          == IF traceErr # Nil THEN traceErr ELSE profileErr
        IN  /\ \E j \in (Len(log) + 1)..Len(log') :
                  log'[j] = Ev("returned", "addExecutionTrace", e = Nil)
            /\ IF e # Nil THEN pc' = "done" /\ ret' = e
                          ELSE pc' = "finish" /\ ret' = Nil
            /\ (ret' = profileErr /\ profileErr # Nil) => traceErr = Nil

\* C25: addExecutionTrace returns the error of the trace capture when
\* there is one, whatever happened to the pprof/profile-during-trace entry,
\* and the error of that entry only when the trace capture returned nil
C25_TraceErrFirst == [][ExecutionTraceReturns]_vars

\* a Run that returned the error of the trace capture although the entry
\* of the profile taken during the trace failed too
C25_Witness ==
    /\ pc = "done"
    /\ ret = "err:write:" \o traceName
    /\ Called("stop", "cpu")
    /\ \E j \in 1..Len(log) : log[j] = Ev("hdr", profileDuringTraceName, FALSE)

\* the iterations whose options asked for an execution trace
TraceIters == {slog[j].i : j \in {j \in 1..Len(slog) :
                                    slog[j].data.opts.traceDur # 0}}

\* C26: with options called for i = 0, 1, 2, ..., the trace duration is
\* non-zero at i exactly when i > 0 and i is the counter; when i is the
\* counter (i = 0 too) the counter becomes i + 1 + k with k in
\* [0, execTraceMaxPeriod), else it stays; after options(i) the counter is
\* above i; the first trace is at an iteration in [1, execTraceMaxPeriod]
\* and two consecutive trace iterations are 1 to execTraceMaxPeriod apart
C26_TraceSchedule ==
    sched = "options" =>
        /\ nextExecTrace >= iter
        /\ \A j \in 1..Len(slog) :
              LET e == slog[j]
              IN  /\ e.i = j - 1
                  /\ (e.data.opts.traceDur # 0) <=>
                        (e.i > 0 /\ e.i = e.data.before)
                  /\ IF e.i = e.data.before
                     THEN \E k \in 0..(execTraceMaxPeriod - 1) :
                             e.data.after = e.i + 1 + k
                     ELSE e.data.after = e.data.before
                  /\ e.data.after > e.i
        /\ iter > execTraceMaxPeriod => TraceIters # {}
        /\ \A t \in TraceIters :
              /\ t >= 1
              /\ (\A u \in TraceIters : u >= t) => t <= execTraceMaxPeriod
              /\ \A u \in TraceIters :
                    (t < u /\ \A v \in TraceIters : ~(t < v /\ v < u)) =>
                        (u - t >= 1 /\ u - t <= execTraceMaxPeriod)

\* traces at two iterations in a row and then a full period later
C26_Witness ==
    /\ sched = "options"
    /\ \E t \in TraceIters :
          /\ t + 1 \in TraceIters
          /\ t + 1 + execTraceMaxPeriod \in TraceIters
          /\ \A v \in TraceIters : ~(t + 1 < v /\ v < t + 1 + execTraceMaxPeriod)

RECURSIVE Chain(_, _)
\* the links reachable from link j, in order
Chain(b, j) ==
    IF j = 0 THEN <<>> ELSE <<j>> \o Chain(b, b.links[j].next)

\* every chunk reachable from the head has a capacity and unread bytes
ChunksNonEmpty ==
    LET c == Chain(llb, llb.head)
    IN  \A x \in 1..Len(c) :
          /\ llb.links[c[x]].cap > 0
          /\ llb.links[c[x]].body # <<>>
          /\ Len(llb.links[c[x]].body) <= llb.links[c[x]].cap

\* a step that moves the head off a chunk leaves that chunk with no unread
\* byte and moves to its successor
UnlinkStep ==
    (llb.head # 0 /\ llb'.head # llb.head) =>
        /\ llb'.links[llb.head].body = <<>>
        /\ llb'.head = llb.links[llb.head].next
        /\ got' # got

\* C27: after every Write and Read every chunk reachable from the head
\* has non-zero capacity and a non-empty unread body, and the head chunk is
\* unlinked only by a Read that leaves it without unread bytes
C27_ChunkInvariant ==
    /\ []ChunksNonEmpty
    /\ [][UnlinkStep]_vars

\* a buffer whose first chunk was read and unlinked, with two more chunks
\* behind it, the first of them partly read
C27_Witness ==
    /\ bpc = "use"
    /\ llb.head > 1
    /\ Len(Chain(llb, llb.head)) >= 2
    /\ llb.links[llb.head].cap < llb.Size

\* the capacity of the chunks the buffer allocates
ChunkCap == IF llb.Size <= 0 THEN defaultSize ELSE llb.Size

\* the number of chunks a step allocates (links are only ever added)
Allocated == Len(llb'.links) - Len(llb.links)

\* C28 as stated: a single Write allocates at most one new chunk, whatever
\* the length of the slice and the chunk capacity
C28_Original == [][Allocated <= 1]_vars

\* C28 amended: a Write of k bytes allocates at most ceil(k / capacity)
\* chunks: none for an empty slice, at most one when the slice is not
\* longer than a chunk; a Read allocates none
C28_AllocPerChunk ==
    [][LET k == Len(wrote') - Len(wrote)
       IN  /\ Allocated >= 0
           /\ Allocated * ChunkCap <= k + ChunkCap - 1
           /\ k <= ChunkCap => Allocated <= 1
           /\ k = 0 => Allocated = 0]_vars

\* one Write of three bytes into an empty buffer of chunk size 1, which
\* allocated three chunks
C28_Witness ==
    /\ call = BufCall("Write", 3, 3, Nil)
    /\ llb.Size = 1
    /\ Len(wrote) = 3
    /\ Len(llb.links) = 3

\* a is the beginning of b
IsPrefix(a, b) == Len(a) <= Len(b) /\ a = Take(b, Len(a))

\* what the last call returned, against the bytes written and read
ReturnedRight ==
    /\ call.op = "Write" => (call.n = call.len /\ call.err = Nil)
    /\ call.op = "Read" =>
          /\ call.err \in {Nil, "EOF"}
          /\ call.err = "EOF" => (call.n = 0 /\ got = wrote)
          /\ (call.err = Nil /\ call.len > 0) => call.n >= 1
          /\ call.n <= call.len

\* a Read step: it returns io.EOF exactly when no written byte was left
\* unread before it, at least one byte when there was one and the
\* destination has room, and the bytes it returns are the next ones written
ReadStep ==
    call'.op = "Read" =>
        /\ (call'.err = "EOF") <=> (got = wrote)
        /\ (call'.len > 0 /\ got # wrote) => call'.n >= 1
        /\ got' = got \o SubSeq(wrote, Len(got) + 1, Len(got) + call'.n)
        /\ wrote' = wrote

\* C29: for every interleaving of Writes and Reads the bytes read are a
\* prefix of the bytes written, Write returns (len(p), nil), Read returns
\* io.EOF exactly when every written byte has been read, and a Read with a
\* non-empty destination on a non-empty buffer returns at least one byte
C29_Interleaved ==
    /\ [](IsPrefix(got, wrote) /\ ReturnedRight)
    /\ [][ReadStep]_vars

\* Writes and Reads took turns (a drained buffer got new chunks, more than
\* five bytes in a row would need) and the last Read returned io.EOF
C29_Witness ==
    /\ call.op = "Read"
    /\ call.err = "EOF"
    /\ llb.Size = 2
    /\ Len(llb.links) > 3
    /\ Len(wrote) = MaxBufBytes
    /\ got = wrote

\* the position of the last writeFileHeader call before position i of the
\* history, 0 when there is none
LastHdrBefore(i) ==
    LET h == {j \in 1..(i - 1) : log[j].ev = "hdr"}
    IN  IF h = {} THEN 0 ELSE CHOOSE j \in h : \A k \in h : k <= j

\* every write in the history went to the entry opened last, before finish
WritesInOwnEntry ==
    \A i \in 1..Len(log) :
        log[i].ev = "write" =>
            /\ LastHdrBefore(i) # 0
            /\ log[LastHdrBefore(i)] = Ev("hdr", log[i].name, TRUE)
            /\ \A j \in 1..(i - 1) : log[j].ev # "finish"

\* a pump runs only inside its capture call: not while Run adds static
\* sources, calls a capture, writes the profile taken during the trace or
\* finishes
PumpInsideCapture ==
    pc \in {"add", "addErr", "cpu", "trace", "start", "header", "profileErr",
            "finish", "done", "idle"} => pump.state = "none"

\* a Write of the pump goes to the entry its capture opened, which is the
\* entry opened last, and finish has not been called
PumpWriteStep ==
    (pump.state = "writing" /\ pump'.state # "writing") =>
        /\ LastHdrBefore(Len(log) + 1) # 0
        /\ log[LastHdrBefore(Len(log) + 1)] = Ev("hdr", EntryName, TRUE)
        /\ ~Called("finish", "")

\* the capture call returns, and so the next entry is opened or finish is
\* called, only after the pump it launched has ended
HeaderAfterPump ==
    /\ (cur # "none" /\ cur' = "none" /\ pump.state # "none") =>
          pump.state = "done"
    /\ (\E j \in (Len(log) + 1)..Len(log') : log'[j].ev \in {"hdr", "finish"}) =>
          pump.state = "none"

\* C30: archive entries are not written concurrently or interleaved:
\* every write, those of a capture's pump included, goes to the entry
\* opened last and comes before the next writeFileHeader and before
\* finish; pprof/profile-during-trace is opened only after the pump of
\* pprof/trace has ended
C30_NoInterleaving ==
    /\ [](WritesInOwnEntry /\ PumpInsideCapture)
    /\ [][PumpWriteStep /\ HeaderAfterPump]_vars

\* a finished Run with the three capture entries, the two first written by
\* pumps, the third after them, and the archive finalized
C30_Witness ==
    /\ pc = "done"
    /\ ret = Nil
    /\ InArchive(profileName)
    /\ InArchive(traceName)
    /\ \E i \in 1..Len(log) :
          /\ log[i].ev = "write"
          /\ log[i].name = profileDuringTraceName
          /\ log[i].ok
    /\ Called("close", "cpu")
    /\ Called("close", "trace")

====
